---- MODULE Spec2Model ----
(***************************************************************************)
(* ComfyUI Universal Image Loader, frontend controller.                    *)
(*                                                                         *)
(* One ImageLoaderNodeHandler attached to one host node.  Two deployments  *)
(* of the controller are modelled, selected by the variable `variant`:     *)
(*   "full"    - the 4-source controller (upload, filepath, base64,        *)
(*               pasted) with clipboard paste and drag and drop;           *)
(*   "reduced" - the 3-source controller (upload, filepath, base64).       *)
(*                                                                         *)
(* JavaScript strings are sequences of one-character strings, so that      *)
(* trim, startsWith, split, substring, atob and encodeURIComponent are     *)
(* computed on characters.                                                 *)
(***************************************************************************)
EXTENDS Integers, Sequences, FiniteSets, Bags, TLC

(***************************************************************************)
(* Bounds of the model.                                                    *)
(***************************************************************************)
\* pending 100 ms re-check timers
MaxTimers == 1
\* pending image-load probes
MaxProbes == 1
\* pending FileReader reads
MaxReaders == 1
\* paste indicators on screen
MaxIndicators == 2
\* nodes of the target type the host creates in one page
MaxNodes == 3
\* pending 10 ms timers of pastes into the base64 text area
MaxPasteTimers == 1

(***************************************************************************)
(* Program constants.                                                      *)
(***************************************************************************)
\* atob(value.substring(0, 100))
ProbeLen == 100

(***************************************************************************)
(* Strings.                                                                *)
(***************************************************************************)
EmptyStr == <<>>

Min(a, b) == IF a < b THEN a ELSE b

\* ASCII white space, which atob (forgiving-base64) removes: space, TAB, LF,
\* CR and FF.
AsciiWhiteSpace == {" ", "\t", "\n", "\r", "\f"}

\* U+000B, the vertical tab
VerticalTab == ""
\* U+00A0, the no-break space
NoBreakSpace == " "
\* U+1680, the ogham space mark
OghamSpace == " "
\* U+FEFF, the zero-width no-break space
ByteOrderMark == "﻿"

\* White space and line terminators as String.prototype.trim strips them: the
\* ASCII ones, VT, NBSP, U+1680 and U+FEFF.  (Of the characters trim strips,
\* U+2000..U+200A, U+2028, U+2029, U+202F, U+205F and U+3000 cannot be written
\* in a string here; no value of the model holds them.)
WhiteSpace ==
    AsciiWhiteSpace \cup {VerticalTab, NoBreakSpace, OghamSpace, ByteOrderMark}

\* JavaScript truthiness of a string: the empty string is falsy.
Truthy(s) == s # EmptyStr

\* String.prototype.trim: what lies between the first and the last character
\* that is not white space.
Trim(s) ==
    LET solid == {i \in 1..Len(s) : s[i] \notin WhiteSpace}
    IN  IF solid = {} THEN EmptyStr
        ELSE SubSeq(s, CHOOSE i \in solid : \A j \in solid : i <= j,
                       CHOOSE i \in solid : \A j \in solid : j <= i)

\* String.prototype.startsWith
StartsWith(s, p) == Len(s) >= Len(p) /\ SubSeq(s, 1, Len(p)) = p

\* String.prototype.substring(0, n)
Substring0(s, n) == SubSeq(s, 1, Min(n, Len(s)))

\* String.prototype.split with a set of one-character separators: the
\* sequence of the pieces between separators (never empty: "" splits to [""]).
Split(s, seps) ==
    LET cuts == {i \in 1..Len(s) : s[i] \in seps}
        \* the position of the k-th separator; 0 and Len(s) + 1 bracket them
        Cut(k) == IF k = 0 THEN 0
                  ELSE IF k > Cardinality(cuts) THEN Len(s) + 1
                  ELSE CHOOSE i \in cuts : Cardinality({j \in cuts : j < i}) = k - 1
    IN  [k \in 1..(Cardinality(cuts) + 1) |-> SubSeq(s, Cut(k - 1) + 1, Cut(k) - 1)]

\* the string without the characters in drop
Remove(s, drop) == SelectSeq(s, LAMBDA c : c \notin drop)

Upper == {"A","B","C","D","E","F","G","H","I","J","K","L","M",
          "N","O","P","Q","R","S","T","U","V","W","X","Y","Z"}
Lower == {"a","b","c","d","e","f","g","h","i","j","k","l","m",
          "n","o","p","q","r","s","t","u","v","w","x","y","z"}
Digit == {"0","1","2","3","4","5","6","7","8","9"}

Base64Alphabet == Upper \cup Lower \cup Digit \cup {"+", "/"}

\* atob (forgiving-base64 decode): TRUE when it returns, FALSE when it
\* throws InvalidCharacterError.  ASCII white space is removed; when the length is
\* a multiple of 4 one or two trailing "=" are dropped; a length of 1 mod 4
\* or a character outside the base64 alphabet is an error.
AtobOk(s) ==
    LET a == Remove(s, AsciiWhiteSpace)
        n == Len(a)
        b == IF n > 0 /\ n % 4 = 0
             THEN IF a[n] = "=" /\ a[n - 1] = "="
                  THEN SubSeq(a, 1, n - 2)
                  ELSE IF a[n] = "=" THEN SubSeq(a, 1, n - 1) ELSE a
             ELSE a
    IN  /\ Len(b) % 4 # 1
        /\ \A i \in 1..Len(b) : b[i] \in Base64Alphabet

\* Characters encodeURIComponent leaves as they are.
UriUnreserved ==
    Upper \cup Lower \cup Digit \cup {"-", "_", ".", "!", "~", "*", "'", "(", ")"}

\* The percent escape of the other ASCII characters used here.
PercentEscape(c) ==
    CASE c = " "  -> <<"%", "2", "0">>
      [] c = "/"  -> <<"%", "2", "F">>
      [] c = "\\" -> <<"%", "5", "C">>
      [] c = ":"  -> <<"%", "3", "A">>
      [] c = ","  -> <<"%", "2", "C">>
      [] c = ";"  -> <<"%", "3", "B">>
      [] c = "="  -> <<"%", "3", "D">>
      [] c = "+"  -> <<"%", "2", "B">>

RECURSIVE EncodeURIComponent(_)
EncodeURIComponent(s) ==
    IF s = <<>> THEN <<>>
    ELSE (IF Head(s) \in UriUnreserved THEN <<Head(s)>> ELSE PercentEscape(Head(s)))
         \o EncodeURIComponent(Tail(s))

\* String.prototype.toLowerCase on ASCII letters.
UpperSeq == <<"A","B","C","D","E","F","G","H","I","J","K","L","M",
              "N","O","P","Q","R","S","T","U","V","W","X","Y","Z">>
LowerSeq == <<"a","b","c","d","e","f","g","h","i","j","k","l","m",
              "n","o","p","q","r","s","t","u","v","w","x","y","z">>

LowerChar(c) ==
    IF c \in Upper
    THEN LowerSeq[CHOOSE i \in 1..26 : UpperSeq[i] = c]
    ELSE c

ToLowerCase(s) == [i \in 1..Len(s) |-> LowerChar(s[i])]

(***************************************************************************)
(* String literals of the program.                                         *)
(***************************************************************************)
\* 'data:image/'
DataImagePrefix == <<"d","a","t","a",":","i","m","a","g","e","/">>
\* 'data:'
DataPrefix == <<"d","a","t","a",":">>
\* 'data:image/png;base64,'
PngDataUrlPrefix ==
    <<"d","a","t","a",":","i","m","a","g","e","/","p","n","g",";",
      "b","a","s","e","6","4",",">>
\* '/view?filename='
ViewPrefix == <<"/","v","i","e","w","?","f","i","l","e","n","a","m","e","=">>
\* '&type=input'
ViewSuffix == <<"&","t","y","p","e","=","i","n","p","u","t">>

ImagePng == <<"i","m","a","g","e","/","p","n","g">>
ImageJpeg == <<"i","m","a","g","e","/","j","p","e","g">>
ImageJpg == <<"i","m","a","g","e","/","j","p","g">>
ImageGif == <<"i","m","a","g","e","/","g","i","f">>
ImageWebp == <<"i","m","a","g","e","/","w","e","b","p">>
ImageBmp == <<"i","m","a","g","e","/","b","m","p">>

\* CONFIG.SUPPORTED_IMAGE_TYPES
SUPPORTED_IMAGE_TYPES ==
    {ImagePng, ImageJpeg, ImageJpg, ImageGif, ImageWebp, ImageBmp}

\* isValidImageType
isValidImageType(type) == ToLowerCase(type) \in SUPPORTED_IMAGE_TYPES

(***************************************************************************)
(* Inputs the host can deliver.                                            *)
(***************************************************************************)
\* values the host's file picker gives the upload ("image") widget
ImageValues == { EmptyStr, <<"u",".","p","n","g">> }

\* values typed or picked into the filepath widget
FilepathValues == { EmptyStr, <<" ">>, <<"d","/","x",".","p","n","g">> }

\* raw base64 that atob decodes
RawValid == <<"Q","U","J","D">>
\* raw text that atob rejects (a character outside the alphabet)
RawInvalid == <<"!","!","!">>
\* a data URL with a payload
UrlValid == PngDataUrlPrefix \o <<"Q","Q","=","=">>
\* a data:image/ value with no comma
UrlNoComma == DataImagePrefix \o <<"p","n","g">>

\* values typed or pasted as text into the base64 text area
Base64Values == { EmptyStr, RawValid, RawInvalid, UrlValid, UrlNoComma }

\* Files the clipboard or a drag can carry.
Files == {"shot", "photo", "notes"}

\* File.type
FileType(f) ==
    CASE f = "shot"  -> ImagePng
      [] f = "photo" -> <<"I","M","A","G","E","/","J","P","E","G">>
      [] f = "notes" -> <<"t","e","x","t","/","p","l","a","i","n">>

\* base64 of the file's bytes
FilePayload(f) ==
    CASE f = "shot"  -> <<"Q","U","E","=">>
      [] f = "photo" -> <<"Q","k","I","=">>
      [] f = "notes" -> <<"Q","0","M","=">>

\* FileReader.readAsDataURL: event.target.result
DataUrl(f) ==
    DataPrefix \o FileType(f) \o <<";","b","a","s","e","6","4",",">> \o FilePayload(f)

\* File lists a paste or a drag carries, in list order.
FileLists == { <<>>, <<"notes">>, <<"notes", "shot">>, <<"photo", "shot">> }

(***************************************************************************)
(* The controller's names.                                                 *)
(***************************************************************************)
\* keys of this.widgets
Widgets == {"image", "filepath", "base64", "pasted"}

\* the widget an input name of clearOtherInputs stands for
WidgetOf(inputName) == IF inputName = "paste" THEN "pasted" ELSE inputName

\* a full table whose paste row forgets base64
clearingRulesFullShort(activeInput) ==
    CASE activeInput = "paste"    -> <<"image", "filepath">>
      [] activeInput = "filepath" -> <<"image", "base64">>
      [] activeInput = "base64"   -> <<"image", "filepath">>
      [] activeInput = "image"    -> <<"filepath", "base64">>
      [] OTHER                    -> <<>>

\* clearingRules[activeInput] || []
clearingRulesFull(activeInput) ==
    CASE activeInput = "paste"    -> <<"image", "filepath", "base64">>
      [] activeInput = "filepath" -> <<"image", "base64">>
      [] activeInput = "base64"   -> <<"image", "filepath">>
      [] activeInput = "image"    -> <<"filepath", "base64">>
      [] OTHER                    -> <<>>

\* a reduced table whose base64 row forgets filepath
clearingRulesReducedShort(activeInput) ==
    CASE activeInput = "filepath" -> <<"image", "base64">>
      [] activeInput = "base64"   -> <<"image">>
      [] activeInput = "image"    -> <<"filepath", "base64">>
      [] OTHER                    -> <<>>

clearingRulesReduced(activeInput) ==
    CASE activeInput = "filepath" -> <<"image", "base64">>
      [] activeInput = "base64"   -> <<"image", "filepath">>
      [] activeInput = "image"    -> <<"filepath", "base64">>
      [] OTHER                    -> <<>>

clearingRules(vt, activeInput) ==
    IF vt = "full" THEN clearingRulesFull(activeInput)
    ELSE clearingRulesReduced(activeInput)

\* a guard that does not trim
ActivatesUntrimmed(v) == Truthy(v)

\* The guard of the callback wrappers and of the base64 input handler:
\* value && value.trim()
Activates(v) == Truthy(v) /\ Truthy(Trim(v))

(***************************************************************************)
(* State.                                                                  *)
(***************************************************************************)
VARIABLES
    variant,          \* which controller is deployed: "full" or "reduced"
    hostCallbacks,    \* the widgets the host gave a callback of its own
    hasCanvas,        \* node.graph && node.graph.canvas
    nodeWidgets,      \* node.widgets: the widgets the host gave the node
    registrar,        \* the extensions registered and the node types offered
    lifecycle,        \* what the host's lifecycle hooks did with the node
    page,             \* the nodes of the page and what they left in the document
    initialized,      \* initialize() has run
    removed,          \* cleanup() has run
    widgets,          \* this.widgets: the keys findWidgets found
    value,            \* widget.value of each widget of the node
    previewElement,   \* this.previewElement: "null" or "element"
    previewAttached,  \* the preview element is a child of document.body
    nodePreviewRef,   \* node._imageLoaderPreview is set
    preview,          \* the preview element: style.display and innerHTML
    eventListeners,   \* this.eventListeners
    domListeners,     \* the listeners the controller has registered in the DOM
    timers,           \* pending 100 ms re-checks, oldest first (their activeInput)
    pasteTimers,      \* pending 10 ms timers of pastes into the text area
    probes,           \* pending image loads (the bag of their file paths)
    readers,          \* pending FileReader reads (the bag of their files)
    indicators,       \* the paste indicators attached to document.body
    selected,         \* the node is in graph.canvas.selected_nodes
    isDragging,       \* this.isDragging
    nodeColors,       \* node.bgcolor / node.color: "host" or "drag"
    originalColors,   \* this.originalColors: "null", "host" or "drag"
    calls,            \* widget.callback invocations made by the last handler
    origCalls,        \* host callbacks reached during the last handler
    last,             \* the handler that ran last and what it did
    lastActivated,    \* the widget whose activation ran the last clearing pass
    lastDecodable,    \* the same among pasted, filepath and base64
    rejected          \* the last input event was a base64 value that failed validation

vars ==
    << variant, hostCallbacks, hasCanvas, nodeWidgets, page, registrar,
       lifecycle, initialized, removed, widgets, value, previewElement,
       previewAttached, nodePreviewRef, preview, eventListeners, domListeners,
       timers, pasteTimers, probes, readers, indicators, selected, isDragging,
       nodeColors, originalColors, calls, origCalls, last, lastActivated,
       lastDecodable, rejected >>

(***************************************************************************)
(* The extension registrar.                                                *)
(***************************************************************************)
\* CONFIG.NODE_NAME
NODE_NAME == "ImageLoader"

\* the name of the extension object given to app.registerExtension
ExtensionName == "Comfy.ImageLoader.Universal"

\* names of the node-type definitions the host offers
TypeNames == {"ImageLoader", "imageloader", "LoadImage"}

\* the properties of the object literal given to app.registerExtension
ExtensionObject == {"name", "beforeRegisterNodeDef"}

\* What `this` is inside beforeRegisterNodeDef: the host calls the hook as a
\* method of the registered object, or as a plain function.
Receivers == {"extension", "undefined"}

\* the properties a receiver has
MembersOf(receiver) == IF receiver = "extension" THEN ExtensionObject ELSE {}

\* a hook of a node type's prototype as the host defined it
HostHooks == {"absent", "original"}

\* A node type nobody has offered yet, whose prototype has the hooks h.
FreshType(h) == [offered |-> "no", original |-> h, hooks |-> h]

\* enhanceNodeType(nodeType): both lifecycle hooks of the prototype are
\* replaced by wrappers that call the hook they replaced.
enhanceNodeType(t) ==
    [t EXCEPT !.hooks = [onNodeCreated |-> "wrapper", onRemoved |-> "wrapper"]]

\* beforeRegisterNodeDef(nodeType, nodeData, app) called with `this` = receiver:
\* for the target name it calls this.enhanceNodeType(nodeType), which is a
\* TypeError (the promise is rejected) when the receiver has no such method.
beforeRegisterNodeDef(receiver, name, t) ==
    IF name = NODE_NAME
    THEN IF "enhanceNodeType" \in MembersOf(receiver)
         THEN [enhanceNodeType(t) EXCEPT !.offered = "resolved"]
         ELSE [t EXCEPT !.offered = "rejected"]
    ELSE [t EXCEPT !.offered = "resolved"]

\* Before register(): no extension registered; the prototypes have no hooks.
RegistrarStart ==
    [extensions |-> {},
     types |-> [n \in TypeNames |->
                   FreshType([onNodeCreated |-> "absent", onRemoved |-> "absent"])]]

\* the hook h of a prototype as the host defined it, run on a node: the steps
\* it takes
HostHook(t, h) == IF t.original[h] = "original" THEN <<"original">> ELSE <<>>

\* nodeType.prototype.onNodeCreated run on a new node: the wrapper calls the
\* hook it replaced, then constructs a controller and initializes it
onNodeCreated(t) ==
    IF t.hooks.onNodeCreated = "wrapper"
    THEN HostHook(t, "onNodeCreated") \o <<"construct", "initialize">>
    ELSE HostHook(t, "onNodeCreated")

\* a removal wrapper that lets the host's hook run first
onRemovedHostFirst(t, hasController) ==
    IF t.hooks.onRemoved = "wrapper"
    THEN HostHook(t, "onRemoved")
         \o (IF hasController THEN <<"cleanup">> ELSE <<>>)
    ELSE HostHook(t, "onRemoved")

\* nodeType.prototype.onRemoved run on a node: the wrapper calls
\* this.imageLoaderExtension?.cleanup(), then the hook it replaced
onRemoved(t, hasController) ==
    IF t.hooks.onRemoved = "wrapper"
    THEN (IF hasController THEN <<"cleanup">> ELSE <<>>)
         \o HostHook(t, "onRemoved")
    ELSE HostHook(t, "onRemoved")

\* how often step x occurs in steps
Count(steps, x) == Cardinality({i \in 1..Len(steps) : steps[i] = x})

\* A node the host has not created yet: no controller was constructed for it
\* and no hook has run.
LifecycleStart ==
    [created |-> FALSE, gone |-> FALSE, controllers |-> 0, steps |-> <<>>]

\* the nodes of the target type a page can hold
NodeIds == 1..MaxNodes

\* A page with no node yet: nothing of the extension is in the document.
\* Of each node: whether the host has created or removed it (phase) and the
\* controller in node.imageLoaderExtension, if any (a sequence of none or one);
\* of the document: the nodes whose globalPasteHandler is a 'paste' listener
\* of the document, and the nodes whose preview element is a child of body.
PageStart ==
    [nodes |-> [n \in NodeIds |-> [phase |-> "absent", controller |-> <<>>]],
     pasteListeners |-> {},
     body |-> {}]

\* The widgets the host may have given a callback of its own.
HostCallbackSets == { {}, {"image", "filepath", "base64"} }

\* node.widgets of the node type each controller is deployed on
NodeWidgets(vt) ==
    IF vt = "full" THEN {"image", "filepath", "base64", "pasted"}
    ELSE {"image", "filepath", "base64"}

NoHtml == [kind |-> "none", arg |-> EmptyStr]

\* what `last` records: the handler (op), the value the event delivered
\* (arg), the activeInput of the clearing pass it ran (pass), what it returned
\* or did with the event (ret), the clearing passes started from inside
\* its pass (nested), the widget whose callback it was (widget), the canvas
\* redraws it asked for (draws), the listeners it unregistered (unlistened),
\* the DOM nodes it detached (detached) and whether it ended in an exception
\* (threw)
NoOp == [op |-> "none", arg |-> EmptyStr, pass |-> "none", ret |-> "none",
         nested |-> 0, widget |-> "none", draws |-> 0, unlistened |-> {},
         detached |-> {}, threw |-> FALSE]

\* After the constructor: no widgets found, no listeners, no preview element.
InitController(vt) ==
    /\ variant = vt
    /\ hostCallbacks \in HostCallbackSets
    /\ lifecycle = LifecycleStart
    /\ page = PageStart
    /\ initialized = FALSE
    /\ removed = FALSE
    /\ widgets = {}
    /\ value = [w \in Widgets |-> EmptyStr]
    /\ previewElement = "null"
    /\ previewAttached = FALSE
    /\ nodePreviewRef = FALSE
    /\ preview = [display |-> "none", html |-> NoHtml]
    /\ eventListeners = {}
    /\ domListeners = {}
    /\ timers = <<>>
    /\ pasteTimers = 0
    /\ probes = EmptyBag
    /\ readers = EmptyBag
    /\ indicators = {}
    /\ selected = FALSE
    /\ isDragging = FALSE
    /\ nodeColors = "host"
    /\ originalColors = "null"
    /\ calls = <<>>
    /\ origCalls = <<>>
    /\ last = NoOp
    /\ lastActivated = "none"
    /\ lastDecodable = "none"
    /\ rejected = FALSE

\* A controller on a node that has all the widgets of its node type and a
\* graph canvas.
InitOf(vt) ==
    /\ InitController(vt)
    /\ hasCanvas = TRUE
    /\ nodeWidgets = NodeWidgets(vt)
    /\ registrar = RegistrarStart

(***************************************************************************)
(* Preview.                                                                *)
(***************************************************************************)
hidePreview(pv) ==
    IF previewElement # "null" THEN [pv EXCEPT !.display = "none"] ELSE pv

showPreview(imageUrl, pv) ==
    IF previewElement = "null" THEN pv
    ELSE [display |-> "block", html |-> [kind |-> "img", arg |-> imageUrl]]

\* the inline onerror of the <img> showPreview wrote:
\* this.parentElement.innerHTML = '<div ...>Preview not available</div>'
imgOnError(pv) == [pv EXCEPT !.html = [kind |-> "unavailable", arg |-> EmptyStr]]

\* a placeholder text that is the whole path
BaseNameWhole(fileName) == fileName

\* fileName.split(/[\\/]/).pop() || fileName
BaseName(fileName) ==
    LET parts == Split(fileName, {"\\", "/"})
        tail == parts[Len(parts)]
    IN  IF Truthy(tail) THEN tail ELSE fileName

showPreviewPlaceholder(fileName, pv) ==
    IF previewElement = "null" THEN pv
    ELSE [display |-> "block",
          html |-> [kind |-> "placeholder", arg |-> BaseName(fileName)]]

\* `/view?filename=${encodeURIComponent(filePath)}&type=input`
ViewUrl(filePath) == ViewPrefix \o EncodeURIComponent(filePath) \o ViewSuffix

\* updatePreview(source, value): the preview afterwards, and the file paths
\* (none or one) loadImagePreview starts a probe for.
updatePreview(source, v, pv) ==
    IF previewElement = "null" THEN [preview |-> pv, probe |-> <<>>]
    ELSE IF source \in {"filepath", "image"} /\ Activates(v)
         THEN [preview |-> pv, probe |-> <<v>>]
         ELSE LET inline == IF variant = "full" THEN {"base64", "paste"}
                            ELSE {"base64"}
                  imageUrl ==
                      IF source \in {"filepath", "image"} \/ source \notin inline
                      THEN EmptyStr
                      ELSE IF StartsWith(v, DataPrefix) THEN v
                           ELSE PngDataUrlPrefix \o v
              IN  IF Truthy(imageUrl)
                  THEN [preview |-> showPreview(imageUrl, pv), probe |-> <<>>]
                  ELSE [preview |-> hidePreview(pv), probe |-> <<>>]

\* validateBase64Input(value): what it returns ("true", "false", or
\* "undefined" when it falls off its end) and the preview afterwards.
validateBase64Input(v, pv) ==
    IF StartsWith(v, DataImagePrefix)
    THEN LET parts == Split(v, {","})
         IN  IF Len(parts) >= 2 /\ Truthy(parts[2]) /\ Len(parts[2]) > 0
             THEN [ret |-> "true", preview |-> updatePreview("base64", v, pv).preview]
             ELSE [ret |-> "undefined", preview |-> pv]
    ELSE IF AtobOk(Substring0(v, ProbeLen))
         THEN [ret |-> "true",
               preview |-> updatePreview("base64", PngDataUrlPrefix \o v, pv).preview]
         ELSE [ret |-> "false", preview |-> hidePreview(pv)]

(***************************************************************************)
(* The clearing pass.                                                      *)
(***************************************************************************)
\* findWidgets(): the keys of this.widgets that name a widget of the node
findWidgets == NodeWidgets(variant) \cap nodeWidgets

\* the widgets whose callback setupEventListeners wrapped
Wrapped == widgets \cap {"image", "filepath"}

\* widget.callback is set
HasCallback(w) == w \in Wrapped \/ w \in hostCallbacks

\* what the host's own callback of widget w returns
HostReturn(w) ==
    CASE w = "image"    -> "image-result"
      [] w = "filepath" -> "filepath-result"
      [] OTHER          -> "base64-result"

\* a wrapper that forwards only the values it acts on
forwardOriginalIfActive(w, v) ==
    IF w \in hostCallbacks /\ Activates(v)
    THEN <<[widget |-> w, arg |-> v, receiver |-> "node"]>>
    ELSE <<>>

\* return originalCallback?.call(this.node, value): the calls the wrapper of
\* widget w makes to the callback it replaced
forwardOriginal(w, v) ==
    IF w \in hostCallbacks
    THEN <<[widget |-> w, arg |-> v, receiver |-> "node"]>>
    ELSE <<>>

\* what the wrapper of widget w returns
WrapperReturn(w) == IF w \in hostCallbacks THEN HostReturn(w) ELSE "undefined"

\* a notification that passes the value the widget held
ClearedValueOld == <<"o", "l", "d">>

\* widget.callback(''): the value a cleared widget's callback is given
ClearedValue == EmptyStr

\* a clearing that assigns the empty value and notifies nobody
SyntheticCallbackSilent(w, acc) == acc

\* if (widget.callback) widget.callback(''): the callback of a cleared widget
\* is called with the empty string.  A wrapped callback evaluates its guard on
\* that value (a nested pass would start if it held) and forwards to the
\* host's callback; an unwrapped one is the host's callback itself.
SyntheticCallback(w, acc) ==
    IF ~HasCallback(w) THEN acc
    ELSE [acc EXCEPT
            !.calls = Append(@, [widget |-> w, arg |-> ClearedValue,
                                 value |-> acc.value[w]]),
            !.nested = IF w \in Wrapped /\ Activates(ClearedValue)
                       THEN @ + 1 ELSE @,
            !.origCalls = IF w \in Wrapped
                          THEN @ \o forwardOriginal(w, ClearedValue)
                          ELSE Append(@, [widget |-> w, arg |-> ClearedValue,
                                          receiver |-> "widget"])]

\* a test that takes every widget to be there
WidgetFoundAlways(w) == TRUE

\* `widget && ...`: this.widgets[inputName] is not undefined
WidgetFound(w) == w \in widgets

\* inputsToClear.forEach(...): for each name, if (widget && widget.value !== '')
\* the widget is emptied and notified.  Reading .value of a widget that is
\* undefined is a TypeError, which ends the loop and the handler.
RECURSIVE ClearEach(_, _)
ClearEach(names, acc) ==
    IF names = <<>> \/ acc.threw THEN acc
    ELSE LET w == WidgetOf(Head(names))
         IN  IF ~WidgetFound(w) THEN ClearEach(Tail(names), acc)
             ELSE IF w \notin widgets THEN [acc EXCEPT !.threw = TRUE]
             ELSE IF acc.value[w] # EmptyStr
             THEN ClearEach(Tail(names),
                            SyntheticCallback(w, [acc EXCEPT !.value[w] = EmptyStr]))
             ELSE ClearEach(Tail(names), acc)

\* the re-check clearOtherInputs schedules with setTimeout(..., 100)
DeferredRecheck(activeInput) ==
    IF variant = "full" /\ activeInput = "paste" THEN <<>> ELSE <<activeInput>>

\* clearOtherInputs(activeInput) on widget values vals and preview pv
clearOtherInputs(activeInput, vals, pv) ==
    LET c == ClearEach(clearingRules(variant, activeInput),
                       [value |-> vals, calls |-> <<>>, origCalls |-> <<>>,
                        nested |-> 0, threw |-> FALSE])
    IN  [value |-> c.value, calls |-> c.calls, origCalls |-> c.origCalls,
         nested |-> c.nested, threw |-> c.threw,
         preview |-> IF c.threw THEN pv ELSE hidePreview(pv),
         timer |-> IF c.threw THEN <<>> ELSE DeferredRecheck(activeInput)]

(***************************************************************************)
(* Drag highlighting.                                                      *)
(***************************************************************************)
\* setDragState(isDragging) on the controller's drag state d
setDragState(dragging, d) ==
    IF dragging
    THEN [isDragging |-> TRUE, originalColors |-> d.nodeColors, nodeColors |-> "drag"]
    ELSE IF d.originalColors # "null"
         THEN [isDragging |-> FALSE, originalColors |-> "null",
               nodeColors |-> d.originalColors]
         ELSE [d EXCEPT !.isDragging = FALSE]

DragState ==
    [isDragging |-> isDragging, originalColors |-> originalColors,
     nodeColors |-> nodeColors]

SetDrag(d) ==
    /\ isDragging' = d.isDragging
    /\ originalColors' = d.originalColors
    /\ nodeColors' = d.nodeColors

\* DataTransfer / clipboard items of a file list
Items(files) ==
    [i \in 1..Len(files) |-> [kind |-> "file", type |-> FileType(files[i]),
                              file |-> files[i]]]

\* dataTransfer.types
Types(files) == IF files = <<>> THEN {} ELSE {"Files"}

\* a test that takes any dragged file for an image
hasImageFilesAnyFile(files) == "Files" \in Types(files)

\* hasImageFiles(dataTransfer)
hasImageFiles(files) ==
    /\ "Files" \in Types(files)
    /\ \E i \in 1..Len(files) :
          Items(files)[i].kind = "file" /\ isValidImageType(Items(files)[i].type)

\* the first element of seq that satisfies the test, as a sequence of 0 or 1
RECURSIVE FirstImage(_)
FirstImage(items) ==
    IF items = <<>> THEN <<>>
    ELSE IF Head(items).kind = "file" /\ isValidImageType(Head(items).type)
         THEN <<Head(items).file>>
         ELSE FirstImage(Tail(items))

Pending(bag) == BagCardinality(bag)

AddAll(bag, seq) ==
    IF seq = <<>> THEN bag ELSE bag (+) SetToBag({seq[1]})

(***************************************************************************)
(* Lifecycle.                                                              *)
(***************************************************************************)
\* a setup that registers the document handler without recording it
ListenersPushedInputOnly(found, vt) ==
    IF "base64" \in found THEN {"input@base64"} ELSE {}

\* setupEventListeners: the entries pushed to this.eventListeners
ListenersPushed(found, vt) ==
    (IF "base64" \in found THEN {"input@base64"} ELSE {})
    \cup (IF vt = "full" THEN {"paste@document"} ELSE {})

\* new ImageLoaderNodeHandler(node) after initialize(): the listeners it
\* recorded and its preview element
NewController ==
    [eventListeners |-> ListenersPushed(findWidgets, variant),
     previewElement |-> "element"]

\* The page after node n ran the lifecycle steps of its creation: initialize()
\* registers the controller's paste handler on the document (4-source
\* controller) and appends its preview element to document.body.
PageCreate(pg, n, steps) ==
    IF Count(steps, "initialize") > 0
    THEN [nodes |-> [pg.nodes EXCEPT ![n] = [phase |-> "live",
                                             controller |-> <<NewController>>]],
          pasteListeners |-> IF variant = "full" THEN pg.pasteListeners \cup {n}
                             ELSE pg.pasteListeners,
          body |-> pg.body \cup {n}]
    ELSE [pg EXCEPT !.nodes[n].phase = "live"]

\* The page after node n ran the lifecycle steps of its removal: cleanup()
\* unregisters the handlers in this.eventListeners, empties the list and
\* removes the preview element from its parent, if it has one.
PageRemove(pg, n, steps) ==
    IF Count(steps, "cleanup") > 0
    THEN LET ctl == pg.nodes[n].controller[1]
         IN  [nodes |-> [pg.nodes EXCEPT ![n] =
                            [phase |-> "removed",
                             controller |-> <<[ctl EXCEPT !.eventListeners = {}]>>]],
              pasteListeners |-> IF "paste@document" \in ctl.eventListeners
                                 THEN pg.pasteListeners \ {n}
                                 ELSE pg.pasteListeners,
              body |-> IF ctl.previewElement # "null" /\ n \in pg.body
                       THEN pg.body \ {n}
                       ELSE pg.body]
    ELSE [pg EXCEPT !.nodes[n].phase = "removed"]

\* onNodeCreated: initialize() = findWidgets, setupWidgets,
\* setupEventListeners, setupDragAndDrop, setupPreview
InitializeCall ==
    /\ ~initialized
    /\ initialized' = TRUE
    /\ widgets' = findWidgets
    /\ eventListeners' = ListenersPushed(findWidgets, variant)
    /\ domListeners' =
          (IF "base64" \in findWidgets
           THEN IF variant = "full" THEN {"input@base64", "paste@base64"}
                ELSE {"input@base64"}
           ELSE {})
          \cup (IF variant = "full" THEN {"paste@document"} ELSE {})
    /\ previewElement' = "element"
    /\ previewAttached' = TRUE
    /\ nodePreviewRef' = TRUE
    /\ preview' = [display |-> "none", html |-> NoHtml]
    /\ calls' = <<>>
    /\ origCalls' = <<>>
    /\ last' = [NoOp EXCEPT !.op = "initialize"]
    /\ UNCHANGED << variant, hostCallbacks, hasCanvas, nodeWidgets, page,
                    registrar, removed, value, timers, pasteTimers, probes,
                    readers, indicators, selected, isDragging, nodeColors,
                    originalColors, lastActivated, lastDecodable, rejected >>

\* a controller is constructed and initialized for the node
Initialize ==
    /\ InitializeCall
    /\ UNCHANGED lifecycle

\* node.graph.canvas.draw(true, true): the redraws one setDragState asks for
Redraws == IF hasCanvas THEN 1 ELSE 0

\* a removal of the preview element that does not ask whether it has a parent
cleanupDetachedUnguarded == {"preview"}

\* cleanup: if (this.previewElement?.parentNode) parentNode.removeChild(...):
\* the DOM nodes the call detaches
cleanupDetached ==
    IF previewElement # "null" /\ previewAttached THEN {"preview"} ELSE {}

\* cleanup(): every listener of this.eventListeners is unregistered, the
\* preview element is detached if it has a parent, the drag state is cleared
\* (4-source controller) and node._imageLoaderPreview is deleted.
CleanupCall ==
    /\ initialized
    /\ removed' = TRUE
    /\ domListeners' = domListeners \ eventListeners
    /\ eventListeners' = {}
    /\ previewAttached' = (previewAttached /\ "preview" \notin cleanupDetached)
    /\ nodePreviewRef' = FALSE
    /\ IF variant = "full"
       THEN SetDrag(setDragState(FALSE, DragState))
       ELSE UNCHANGED << isDragging, nodeColors, originalColors >>
    /\ calls' = <<>>
    /\ origCalls' = <<>>
    /\ last' = [NoOp EXCEPT
                  !.op = "cleanup",
                  !.unlistened = eventListeners \cap domListeners,
                  !.detached = cleanupDetached,
                  !.draws = IF variant = "full" THEN Redraws ELSE 0]
    /\ UNCHANGED << variant, hostCallbacks, hasCanvas, nodeWidgets, page,
                    registrar, initialized, widgets, value, previewElement,
                    preview, timers, pasteTimers, probes, readers, indicators,
                    selected, lastActivated, lastDecodable, rejected >>

\* onRemoved: cleanup()
Cleanup ==
    /\ ~removed
    /\ CleanupCall
    /\ UNCHANGED lifecycle

\* cleanup() called again on a controller that was already cleaned up
CleanupAgain ==
    /\ removed
    /\ CleanupCall
    /\ UNCHANGED lifecycle

\* The user selects or deselects the node in the graph canvas.
ToggleSelected ==
    /\ initialized
    /\ ~removed
    /\ variant = "full"
    /\ selected' = ~selected
    /\ calls' = <<>>
    /\ origCalls' = <<>>
    /\ last' = [NoOp EXCEPT !.op = "select"]
    /\ UNCHANGED << variant, hostCallbacks, hasCanvas, nodeWidgets, page,
                    lifecycle, registrar, initialized, removed, widgets, value,
                    previewElement, previewAttached, nodePreviewRef, preview,
                    eventListeners, domListeners, timers, pasteTimers, probes,
                    readers, indicators, isDragging, nodeColors,
                    originalColors, lastActivated, lastDecodable, rejected >>

(***************************************************************************)
(* Widget events.                                                          *)
(***************************************************************************)
\* The wrapped callback of the image or filepath widget w, called by the host
\* with the value v it has just stored in the widget.
WrappedCallback(w, v) ==
    /\ initialized
    /\ ~removed
    /\ w \in Wrapped
    /\ LET v0 == [value EXCEPT ![w] = v]
           forward == forwardOriginal(w, v)
       IN  IF Activates(v)
           THEN LET c == clearOtherInputs(w, v0, preview)
                    u == IF c.threw THEN [preview |-> c.preview, probe |-> <<>>]
                         ELSE updatePreview(w, v, c.preview)
                IN  /\ Len(timers) + Len(c.timer) <= MaxTimers
                    /\ Pending(probes) + Len(u.probe) <= MaxProbes
                    /\ value' = c.value
                    /\ calls' = c.calls
                    /\ origCalls' = c.origCalls
                                     \o (IF c.threw THEN <<>> ELSE forward)
                    /\ preview' = u.preview
                    /\ timers' = timers \o c.timer
                    /\ probes' = AddAll(probes, u.probe)
                    /\ last' = [NoOp EXCEPT !.op = "callback", !.arg = v,
                                             !.pass = w, !.nested = c.nested,
                                             !.widget = w, !.threw = c.threw,
                                             !.ret = IF c.threw THEN "none"
                                                     ELSE WrapperReturn(w)]
                    /\ lastActivated' = w
                    /\ lastDecodable' = IF w = "filepath" THEN w ELSE lastDecodable
           ELSE /\ value' = v0
                /\ calls' = <<>>
                /\ origCalls' = forward
                /\ last' = [NoOp EXCEPT !.op = "callback", !.arg = v,
                                         !.widget = w, !.ret = WrapperReturn(w)]
                /\ UNCHANGED << preview, timers, probes, lastActivated,
                                lastDecodable >>
    /\ UNCHANGED << variant, hostCallbacks, hasCanvas, nodeWidgets, page,
                    lifecycle, registrar, initialized, removed, widgets,
                    previewElement, previewAttached, nodePreviewRef,
                    eventListeners, domListeners, pasteTimers, readers,
                    indicators, selected, isDragging, nodeColors,
                    originalColors >>
    /\ rejected' = FALSE

ImageCallback(v) == WrappedCallback("image", v)

FilepathCallback(v) == WrappedCallback("filepath", v)

\* a handler that clears the other inputs only for a value that validates
inputHandlerClearIfValid(v, vals, pv) ==
    IF validateBase64Input(v, pv).ret = "true"
    THEN clearOtherInputs("base64", vals, pv)
    ELSE [value |-> vals, calls |-> <<>>, origCalls |-> <<>>, nested |-> 0,
          threw |-> FALSE, preview |-> hidePreview(pv), timer |-> <<"base64">>]

\* inputHandler: this.clearOtherInputs('base64'), for the typed value v
inputHandlerClear(v, vals, pv) == clearOtherInputs("base64", vals, pv)

\* inputHandler(event), for event.target.value = v: a value that is not blank
\* runs this.clearOtherInputs('base64') and this.validateBase64Input(value)
inputHandler(v) ==
    LET v0 == [value EXCEPT !["base64"] = v]
    IN  IF Activates(v)
        THEN LET c == inputHandlerClear(v, v0, preview)
                 r == IF c.threw THEN [ret |-> "none", preview |-> c.preview]
                      ELSE validateBase64Input(v, c.preview)
             IN  /\ Len(timers) + Len(c.timer) <= MaxTimers
                 /\ value' = c.value
                 /\ calls' = c.calls
                 /\ origCalls' = c.origCalls
                 /\ preview' = r.preview
                 /\ timers' = timers \o c.timer
                 /\ last' = [NoOp EXCEPT !.op = "input", !.arg = v,
                                          !.pass = "base64", !.ret = r.ret,
                                          !.nested = c.nested,
                                          !.threw = c.threw]
                 /\ lastActivated' = "base64"
                 /\ lastDecodable' = "base64"
                 /\ rejected' = (~c.threw /\ r.ret # "true")
        ELSE /\ value' = v0
             /\ calls' = <<>>
             /\ origCalls' = <<>>
             /\ last' = [NoOp EXCEPT !.op = "input", !.arg = v]
             /\ rejected' = FALSE
             /\ UNCHANGED << preview, timers, lastActivated, lastDecodable >>

\* An 'input' event on the base64 text area, whose value is v: the listener
\* on the element is inputHandler.
Base64Input(v) ==
    /\ "input@base64" \in domListeners
    /\ inputHandler(v)
    /\ UNCHANGED << variant, hostCallbacks, hasCanvas, nodeWidgets, page,
                    lifecycle, registrar, initialized, removed, widgets,
                    previewElement, previewAttached, nodePreviewRef,
                    eventListeners, domListeners, pasteTimers, probes, readers,
                    indicators, selected, isDragging, nodeColors,
                    originalColors >>

\* A 'paste' event on the base64 text area, which holds the text v: the
\* anonymous listener on the element calls
\* setTimeout(() => inputHandler(event), 10) and nothing else.  The listener
\* is not in this.eventListeners, so it outlives cleanup().  (The clipboard
\* holds text, no image file: handlePaste, on the document, finds nothing
\* to take.  The 'input' event of the insertion is Base64Input.)
Base64Paste(v) ==
    /\ "paste@base64" \in domListeners
    /\ pasteTimers < MaxPasteTimers
    /\ pasteTimers' = pasteTimers + 1
    /\ value' = [value EXCEPT !["base64"] = v]
    /\ calls' = <<>>
    /\ origCalls' = <<>>
    /\ last' = [NoOp EXCEPT !.op = "paste-text", !.arg = v]
    /\ rejected' = FALSE
    /\ UNCHANGED << variant, hostCallbacks, hasCanvas, nodeWidgets, page,
                    lifecycle, registrar, initialized, removed, widgets,
                    previewElement, previewAttached, nodePreviewRef, preview,
                    eventListeners, domListeners, timers, probes, readers,
                    indicators, selected, isDragging, nodeColors,
                    originalColors, lastActivated, lastDecodable >>

\* The 10 ms timer of a paste into the base64 text area fires:
\* inputHandler(event) reads the value the text area holds by then.
Base64PasteTimer ==
    /\ pasteTimers > 0
    /\ pasteTimers' = pasteTimers - 1
    /\ inputHandler(value["base64"])
    /\ UNCHANGED << variant, hostCallbacks, hasCanvas, nodeWidgets, page,
                    lifecycle, registrar, initialized, removed, widgets,
                    previewElement, previewAttached, nodePreviewRef,
                    eventListeners, domListeners, probes, readers, indicators,
                    selected, isDragging, nodeColors, originalColors >>

(***************************************************************************)
(* Clipboard paste and drag and drop (the full controller).                *)
(***************************************************************************)
\* The <div> elements an indicator can be; each is on screen or not.
IndicatorSlots == 1..MaxIndicators

\* showPasteIndicator(): document.createElement('div') is an element that is
\* not in the document, and document.body.appendChild(indicator) attaches it
showPasteIndicator(shown) ==
    shown \cup {CHOOSE i \in IndicatorSlots \ shown :
                    \A j \in IndicatorSlots \ shown : i <= j}

\* a removal that is given up once the node is gone
removeIndicatorOfLiveNode(i, shown) == IF removed THEN shown ELSE shown \ {i}

\* the callback showPasteIndicator gave setTimeout:
\* if (indicator.parentNode) indicator.parentNode.removeChild(indicator)
removeIndicator(i, shown) == IF i \in shown THEN shown \ {i} ELSE shown

\* a filter that lets every node handle the paste
isNodeActiveAlways == TRUE

\* isNodeActive()
isNodeActive == hasCanvas /\ selected

\* globalPasteHandler -> handlePaste(event): the clipboard holds `files`
Paste(files) ==
    /\ "paste@document" \in domListeners
    /\ LET first == IF isNodeActive THEN FirstImage(Items(files)) ELSE <<>>
       IN  /\ Pending(readers) + Len(first) <= MaxReaders
           /\ Cardinality(indicators) + Len(first) <= MaxIndicators
           /\ readers' = AddAll(readers, first)
           /\ indicators' = IF first # <<>> THEN showPasteIndicator(indicators)
                             ELSE indicators
           /\ last' = [NoOp EXCEPT !.op = "paste", !.arg = files,
                                   !.ret = IF first # <<>> THEN "consumed" ELSE "none"]
    /\ calls' = <<>>
    /\ origCalls' = <<>>
    /\ UNCHANGED << variant, hostCallbacks, hasCanvas, nodeWidgets, page,
                    lifecycle, registrar, initialized, removed, widgets, value,
                    previewElement, previewAttached, nodePreviewRef, preview,
                    eventListeners, domListeners, timers, pasteTimers, probes,
                    selected, isDragging, nodeColors, originalColors,
                    lastActivated, lastDecodable >>
    /\ rejected' = FALSE

\* the timer of indicator i fires, PASTE_INDICATOR_DURATION after it was shown
IndicatorTimeout(i) ==
    /\ i \in indicators
    /\ indicators' = removeIndicator(i, indicators)
    /\ calls' = <<>>
    /\ origCalls' = <<>>
    /\ last' = [NoOp EXCEPT !.op = "indicator-timeout"]
    /\ UNCHANGED << variant, hostCallbacks, hasCanvas, nodeWidgets, page,
                    lifecycle, registrar, initialized, removed, widgets, value,
                    previewElement, previewAttached, nodePreviewRef, preview,
                    eventListeners, domListeners, timers, pasteTimers, probes,
                    readers, selected, isDragging, nodeColors, originalColors,
                    lastActivated, lastDecodable, rejected >>

\* node.onDragOver(event): the drag carries `files`
DragOver(files) ==
    /\ initialized
    /\ ~removed
    /\ variant = "full"
    /\ IF hasImageFiles(files)
       THEN /\ SetDrag(setDragState(TRUE, DragState))
            /\ last' = [NoOp EXCEPT !.op = "dragover", !.arg = files,
                                     !.ret = "consumed", !.draws = Redraws]
       ELSE /\ UNCHANGED << isDragging, nodeColors, originalColors >>
            /\ last' = [NoOp EXCEPT !.op = "dragover", !.arg = files,
                                     !.ret = "forwarded"]
    /\ calls' = <<>>
    /\ origCalls' = <<>>
    /\ UNCHANGED << variant, hostCallbacks, hasCanvas, nodeWidgets, page,
                    lifecycle, registrar, initialized, removed, widgets, value,
                    previewElement, previewAttached, nodePreviewRef, preview,
                    eventListeners, domListeners, timers, pasteTimers, probes,
                    readers, indicators, selected, lastActivated,
                    lastDecodable, rejected >>

\* node.onDragLeave(event)
DragLeave ==
    /\ initialized
    /\ ~removed
    /\ variant = "full"
    /\ SetDrag(setDragState(FALSE, DragState))
    /\ last' = [NoOp EXCEPT !.op = "dragleave", !.ret = "forwarded",
                             !.draws = Redraws]
    /\ calls' = <<>>
    /\ origCalls' = <<>>
    /\ UNCHANGED << variant, hostCallbacks, hasCanvas, nodeWidgets, page,
                    lifecycle, registrar, initialized, removed, widgets, value,
                    previewElement, previewAttached, nodePreviewRef, preview,
                    eventListeners, domListeners, timers, pasteTimers, probes,
                    readers, indicators, selected, lastActivated,
                    lastDecodable, rejected >>

\* a drop handler that takes the last image of the list
handleDropLast(files) ==
    LET imageFiles == SelectSeq(files, LAMBDA f : isValidImageType(FileType(f)))
    IN  IF Len(imageFiles) > 0 THEN <<imageFiles[Len(imageFiles)]>> ELSE <<>>

\* handleDrop(event): the first file of a supported image type, if any
handleDrop(files) ==
    LET imageFiles == SelectSeq(files, LAMBDA f : isValidImageType(FileType(f)))
    IN  IF Len(imageFiles) > 0 THEN <<imageFiles[1]>> ELSE <<>>

\* node.onDrop(event): `files` are dropped on the node
Drop(files) ==
    /\ initialized
    /\ ~removed
    /\ variant = "full"
    /\ IF hasImageFiles(files)
       THEN /\ Pending(readers) + Len(handleDrop(files)) <= MaxReaders
            /\ SetDrag(setDragState(FALSE, DragState))
            /\ readers' = AddAll(readers, handleDrop(files))
            /\ last' = [NoOp EXCEPT !.op = "drop", !.arg = files,
                                     !.ret = "consumed", !.draws = Redraws]
       ELSE /\ UNCHANGED << isDragging, nodeColors, originalColors, readers >>
            /\ last' = [NoOp EXCEPT !.op = "drop", !.arg = files,
                                     !.ret = "forwarded"]
    /\ calls' = <<>>
    /\ origCalls' = <<>>
    /\ UNCHANGED << variant, hostCallbacks, hasCanvas, nodeWidgets, page,
                    lifecycle, registrar, initialized, removed, widgets, value,
                    previewElement, previewAttached, nodePreviewRef, preview,
                    eventListeners, domListeners, timers, pasteTimers, probes,
                    indicators, selected, lastActivated, lastDecodable >>
    /\ rejected' = FALSE

\* processImageFile: reader.onload for file f
ReaderLoad(f) ==
    /\ BagIn(f, readers)
    /\ readers' = readers (-) SetToBag({f})
    /\ IF "pasted" \in widgets
       THEN LET dataUrl == DataUrl(f)
                c == clearOtherInputs("paste", [value EXCEPT !["pasted"] = dataUrl],
                                      preview)
                u == IF c.threw THEN [preview |-> c.preview, probe |-> <<>>]
                     ELSE updatePreview("paste", dataUrl, c.preview)
            IN  /\ value' = c.value
                /\ calls' = c.calls
                /\ origCalls' = c.origCalls
                /\ preview' = u.preview
                /\ last' = [NoOp EXCEPT !.op = "reader-load", !.arg = dataUrl,
                                         !.pass = "paste", !.nested = c.nested,
                                         !.threw = c.threw]
                /\ lastActivated' = "pasted"
                /\ lastDecodable' = "pasted"
       ELSE /\ calls' = <<>>
            /\ origCalls' = <<>>
            /\ last' = [NoOp EXCEPT !.op = "reader-load", !.arg = DataUrl(f)]
            /\ UNCHANGED << value, preview, lastActivated, lastDecodable >>
    /\ UNCHANGED << variant, hostCallbacks, hasCanvas, nodeWidgets, page,
                    lifecycle, registrar, initialized, removed, widgets,
                    previewElement, previewAttached, nodePreviewRef,
                    eventListeners, domListeners, timers, pasteTimers, probes,
                    indicators, selected, isDragging, nodeColors,
                    originalColors >>
    /\ rejected' = FALSE

\* an error handler that gives up the pasted image
readerOnErrorClears(vals) == [vals EXCEPT !["pasted"] = EmptyStr]

\* reader.onerror: console.error(...) and nothing else; the widget values after it
readerOnError(vals) == vals

\* processImageFile: reader.onerror for file f
ReaderError(f) ==
    /\ BagIn(f, readers)
    /\ readers' = readers (-) SetToBag({f})
    /\ value' = readerOnError(value)
    /\ calls' = <<>>
    /\ origCalls' = <<>>
    /\ last' = [NoOp EXCEPT !.op = "reader-error"]
    /\ UNCHANGED << variant, hostCallbacks, hasCanvas, nodeWidgets, page,
                    lifecycle, registrar, initialized, removed, widgets,
                    previewElement, previewAttached, nodePreviewRef, preview,
                    eventListeners, domListeners, timers, pasteTimers, probes,
                    indicators, selected, isDragging, nodeColors,
                    originalColors, lastActivated, lastDecodable, rejected >>

(***************************************************************************)
(* Deferred work.                                                          *)
(***************************************************************************)
\* the callback clearOtherInputs gave setTimeout, for its activeInput
Recheck(activeInput, pv) ==
    IF activeInput \in {"image", "filepath", "base64"}
       /\ activeInput \in widgets /\ Truthy(value[activeInput])
    THEN updatePreview(activeInput, value[activeInput], pv)
    ELSE [preview |-> pv, probe |-> <<>>]

\* the oldest pending 100 ms timer fires
TimerFire ==
    /\ timers # <<>>
    /\ LET u == Recheck(Head(timers), preview)
       IN  /\ Pending(probes) + Len(u.probe) <= MaxProbes
           /\ preview' = u.preview
           /\ probes' = AddAll(probes, u.probe)
    /\ timers' = Tail(timers)
    /\ calls' = <<>>
    /\ origCalls' = <<>>
    /\ last' = [NoOp EXCEPT !.op = "timer"]
    /\ UNCHANGED << variant, hostCallbacks, hasCanvas, nodeWidgets, page,
                    lifecycle, registrar, initialized, removed, widgets, value,
                    previewElement, previewAttached, nodePreviewRef,
                    eventListeners, domListeners, pasteTimers, readers,
                    indicators, selected, isDragging, nodeColors,
                    originalColors, lastActivated, lastDecodable, rejected >>

\* loadImagePreview: img.onload for the probe of filePath
ProbeLoad(filePath) ==
    /\ BagIn(filePath, probes)
    /\ probes' = probes (-) SetToBag({filePath})
    /\ preview' = showPreview(ViewUrl(filePath), preview)
    /\ calls' = <<>>
    /\ origCalls' = <<>>
    /\ last' = [NoOp EXCEPT !.op = "probe-load", !.arg = filePath]
    /\ UNCHANGED << variant, hostCallbacks, hasCanvas, nodeWidgets, page,
                    lifecycle, registrar, initialized, removed, widgets, value,
                    previewElement, previewAttached, nodePreviewRef,
                    eventListeners, domListeners, timers, pasteTimers, readers,
                    indicators, selected, isDragging, nodeColors,
                    originalColors, lastActivated, lastDecodable, rejected >>

\* loadImagePreview: img.onerror for the probe of filePath
ProbeError(filePath) ==
    /\ BagIn(filePath, probes)
    /\ probes' = probes (-) SetToBag({filePath})
    /\ preview' = showPreviewPlaceholder(filePath, preview)
    /\ calls' = <<>>
    /\ origCalls' = <<>>
    /\ last' = [NoOp EXCEPT !.op = "probe-error", !.arg = filePath]
    /\ UNCHANGED << variant, hostCallbacks, hasCanvas, nodeWidgets, page,
                    lifecycle, registrar, initialized, removed, widgets, value,
                    previewElement, previewAttached, nodePreviewRef,
                    eventListeners, domListeners, timers, pasteTimers, readers,
                    indicators, selected, isDragging, nodeColors,
                    originalColors, lastActivated, lastDecodable, rejected >>

\* The <img> in the preview element fails to load (the data URL is no image,
\* or the backend does not serve the file): the browser runs its onerror.
\* The element loads also while the preview is hidden or detached.
ImgError ==
    /\ previewElement # "null"
    /\ preview.html.kind = "img"
    /\ preview' = imgOnError(preview)
    /\ calls' = <<>>
    /\ origCalls' = <<>>
    /\ last' = [NoOp EXCEPT !.op = "img-error"]
    /\ UNCHANGED << variant, hostCallbacks, hasCanvas, nodeWidgets, page,
                    lifecycle, registrar, initialized, removed, widgets, value,
                    previewElement, previewAttached, nodePreviewRef,
                    eventListeners, domListeners, timers, pasteTimers, probes,
                    readers, indicators, selected, isDragging, nodeColors,
                    originalColors, lastActivated, lastDecodable, rejected >>

(***************************************************************************)
(* Registration.                                                           *)
(***************************************************************************)
\* imageLoaderExtension.register(): app.registerExtension({...})
Register ==
    /\ ExtensionName \notin registrar.extensions
    /\ registrar' = [registrar EXCEPT !.extensions = @ \cup {ExtensionName}]
    /\ UNCHANGED << variant, hostCallbacks, hasCanvas, nodeWidgets, page,
                    lifecycle, initialized, removed, widgets, value,
                    previewElement, previewAttached, nodePreviewRef, preview,
                    eventListeners, domListeners, timers, pasteTimers, probes,
                    readers, indicators, selected, isDragging, nodeColors,
                    originalColors, calls, origCalls, last, lastActivated,
                    lastDecodable, rejected >>

\* The host offers the node-type definition `name` to the registered extension.
BeforeRegisterNodeDef(name, receiver) ==
    /\ ExtensionName \in registrar.extensions
    /\ registrar.types[name].offered = "no"
    /\ registrar' = [registrar EXCEPT
                        !.types[name] = beforeRegisterNodeDef(receiver, name, @)]
    /\ UNCHANGED << variant, hostCallbacks, hasCanvas, nodeWidgets, page,
                    lifecycle, initialized, removed, widgets, value,
                    previewElement, previewAttached, nodePreviewRef, preview,
                    eventListeners, domListeners, timers, pasteTimers, probes,
                    readers, indicators, selected, isDragging, nodeColors,
                    originalColors, calls, origCalls, last, lastActivated,
                    lastDecodable, rejected >>

\* enhanceNodeType(nodeType) applied to the node type named NODE_NAME
EnhanceNodeType ==
    /\ registrar.types[NODE_NAME].hooks.onNodeCreated # "wrapper"
    /\ registrar' = [registrar EXCEPT !.types[NODE_NAME] = enhanceNodeType(@)]
    /\ UNCHANGED << variant, hostCallbacks, hasCanvas, nodeWidgets, page,
                    lifecycle, initialized, removed, widgets, value,
                    previewElement, previewAttached, nodePreviewRef, preview,
                    eventListeners, domListeners, timers, pasteTimers, probes,
                    readers, indicators, selected, isDragging, nodeColors,
                    originalColors, calls, origCalls, last, lastActivated,
                    lastDecodable, rejected >>

\* The host creates the node: it runs the onNodeCreated of the prototype.
NodeCreated ==
    /\ ~lifecycle.created
    /\ LET steps == onNodeCreated(registrar.types[NODE_NAME])
       IN  /\ lifecycle' = [created |-> TRUE, gone |-> FALSE,
                            controllers |-> Count(steps, "construct"),
                            steps |-> steps]
           /\ IF Count(steps, "initialize") > 0
              THEN InitializeCall
              ELSE UNCHANGED << variant, hostCallbacks, hasCanvas, nodeWidgets,
                                page, registrar, initialized, removed, widgets,
                                value, previewElement, previewAttached,
                                nodePreviewRef, preview, eventListeners,
                                domListeners, timers, pasteTimers, probes,
                                readers, indicators, selected, isDragging,
                                nodeColors, originalColors, calls, origCalls,
                                last, lastActivated, lastDecodable, rejected >>

\* The host removes the node: it runs the onRemoved of the prototype.
NodeRemoved ==
    /\ lifecycle.created
    /\ ~lifecycle.gone
    /\ LET steps == onRemoved(registrar.types[NODE_NAME],
                              lifecycle.controllers > 0)
       IN  /\ lifecycle' = [lifecycle EXCEPT !.gone = TRUE, !.steps = steps]
           /\ IF Count(steps, "cleanup") > 0
              THEN CleanupCall
              ELSE UNCHANGED << variant, hostCallbacks, hasCanvas, nodeWidgets,
                                page, registrar, initialized, removed, widgets,
                                value, previewElement, previewAttached,
                                nodePreviewRef, preview, eventListeners,
                                domListeners, timers, pasteTimers, probes,
                                readers, indicators, selected, isDragging,
                                nodeColors, originalColors, calls, origCalls,
                                last, lastActivated, lastDecodable, rejected >>

\* The host creates node n of the target type, whose hooks were wrapped when
\* the type was registered: it runs the onNodeCreated of the prototype.
CreateNode(n) ==
    /\ registrar.types[NODE_NAME].hooks.onNodeCreated = "wrapper"
    /\ page.nodes[n].phase = "absent"
    /\ page' = PageCreate(page, n, onNodeCreated(registrar.types[NODE_NAME]))
    /\ UNCHANGED << variant, hostCallbacks, hasCanvas, nodeWidgets, registrar,
                    lifecycle, initialized, removed, widgets, value,
                    previewElement, previewAttached, nodePreviewRef, preview,
                    eventListeners, domListeners, timers, pasteTimers, probes,
                    readers, indicators, selected, isDragging, nodeColors,
                    originalColors, calls, origCalls, last, lastActivated,
                    lastDecodable, rejected >>

\* The host removes node n: it runs the onRemoved of the prototype.
RemoveNode(n) ==
    /\ page.nodes[n].phase = "live"
    /\ page' = PageRemove(page, n,
                          onRemoved(registrar.types[NODE_NAME],
                                    page.nodes[n].controller # <<>>))
    /\ UNCHANGED << variant, hostCallbacks, hasCanvas, nodeWidgets, registrar,
                    lifecycle, initialized, removed, widgets, value,
                    previewElement, previewAttached, nodePreviewRef, preview,
                    eventListeners, domListeners, timers, pasteTimers, probes,
                    readers, indicators, selected, isDragging, nodeColors,
                    originalColors, calls, origCalls, last, lastActivated,
                    lastDecodable, rejected >>

FilePaths == (ImageValues \cup FilepathValues) \ {EmptyStr}

\* the file lists dropped on the node
DroppedLists == { <<"notes">>, <<"notes", "shot">> }

\* The full controller and the events that reach the precedence engine:
\* widget edits, drops, and the completions of reads, timers, probes and
\* the preview's image load.
Next ==
    \/ Initialize
    \/ Cleanup
    \/ ImgError
    \/ \E v \in ImageValues : ImageCallback(v)
    \/ \E v \in FilepathValues : FilepathCallback(v)
    \/ \E v \in Base64Values : Base64Input(v)
    \/ \E files \in DroppedLists : Drop(files)
    \/ \E f \in Files : ReaderLoad(f)
    \/ \E f \in Files : ReaderError(f)
    \/ TimerFire
    \/ \E p \in FilePaths : ProbeLoad(p)
    \/ \E p \in FilePaths : ProbeError(p)

\* The reduced controller: it has no paste and no drag and drop.
NextReduced ==
    \/ Initialize
    \/ Cleanup
    \/ ImgError
    \/ \E v \in ImageValues : ImageCallback(v)
    \/ \E v \in FilepathValues : FilepathCallback(v)
    \/ \E v \in Base64Values : Base64Input(v)
    \/ TimerFire
    \/ \E p \in FilePaths : ProbeLoad(p)
    \/ \E p \in FilePaths : ProbeError(p)

\* The full controller with the clipboard and drag events, and pastes of
\* text into the base64 text area, as well.
NextAll ==
    \/ Next
    \/ CleanupAgain
    \/ \E v \in Base64Values : Base64Paste(v)
    \/ Base64PasteTimer
    \/ ToggleSelected
    \/ \E files \in FileLists : Paste(files)
    \/ \E i \in IndicatorSlots : IndicatorTimeout(i)
    \/ \E files \in FileLists : DragOver(files)
    \/ DragLeave
    \/ \E files \in FileLists : Drop(files)

Init == InitOf("full")

InitReduced == InitOf("reduced")

Spec == Init /\ [][Next]_vars

SpecReduced == InitReduced /\ [][NextReduced]_vars

SpecAll == Init /\ [][NextAll]_vars

\* The full controller's clipboard and drag handling: selection changes,
\* document pastes, drags over and off the node, drops, the completions of
\* the reads they start, and removal of the node (with a repeated cleanup).
NextFeedback ==
    \/ Initialize
    \/ Cleanup
    \/ CleanupAgain
    \/ ToggleSelected
    \/ \E files \in FileLists : Paste(files)
    \/ \E i \in IndicatorSlots : IndicatorTimeout(i)
    \/ \E files \in FileLists : DragOver(files)
    \/ DragLeave
    \/ \E files \in FileLists : Drop(files)
    \/ \E f \in Files : ReaderLoad(f)
    \/ \E f \in Files : ReaderError(f)
    \/ ImgError

\* a node with all its widgets, with or without a graph canvas
InitFeedback ==
    /\ InitController("full")
    /\ hasCanvas \in BOOLEAN
    /\ nodeWidgets = NodeWidgets("full")
    /\ registrar = RegistrarStart

SpecFeedback == InitFeedback /\ [][NextFeedback]_vars

\* The base64 text area of the full controller: text typed ('input') and
\* pasted ('paste', with its 10 ms timer) into it, before and after the node
\* is removed, next to the upload and filepath callbacks and the deferred
\* work they start.
NextText ==
    \/ Initialize
    \/ Cleanup
    \/ ImageCallback(<<"u",".","p","n","g">>)
    \/ \E v \in FilepathValues \ {EmptyStr} : FilepathCallback(v)
    \/ \E v \in Base64Values : Base64Input(v)
    \/ \E v \in Base64Values : Base64Paste(v)
    \/ Base64PasteTimer
    \/ TimerFire
    \/ \E p \in FilePaths : ProbeLoad(p)
    \/ \E p \in FilePaths : ProbeError(p)
    \/ ImgError

SpecText == Init /\ [][NextText]_vars

\* Document pastes on one node and what follows them: the reads, the
\* indicators' timers, and removal of the node.
NextIndicator ==
    \/ Initialize
    \/ Cleanup
    \/ ToggleSelected
    \/ \E files \in FileLists : Paste(files)
    \/ \E i \in IndicatorSlots : IndicatorTimeout(i)
    \/ \E f \in Files : ReaderLoad(f)
    \/ \E f \in Files : ReaderError(f)
    \/ ImgError

\* The host's event loop runs every timer that was set: the timer of an
\* indicator on screen fires eventually, whatever became of the node.
SpecIndicator ==
    /\ InitFeedback
    /\ [][NextIndicator]_vars
    /\ \A i \in IndicatorSlots : WF_vars(IndicatorTimeout(i))

\* a node the host gave any subset of the four widgets
InitMissing ==
    /\ InitController("full")
    /\ hasCanvas = TRUE
    /\ nodeWidgets \in SUBSET Widgets
    /\ registrar = RegistrarStart

\* The events of the full controller, each widget with one value that
\* activates it.
NextMissing ==
    \/ Initialize
    \/ Cleanup
    \/ ImageCallback(<<"u",".","p","n","g">>)
    \/ FilepathCallback(<<"d","/","x",".","p","n","g">>)
    \/ \E v \in {RawValid, RawInvalid} : Base64Input(v)
    \/ Base64Paste(RawValid)
    \/ Base64PasteTimer
    \/ ImgError
    \/ Drop(<<"notes", "shot">>)
    \/ \E f \in Files : ReaderLoad(f)
    \/ \E f \in Files : ReaderError(f)
    \/ TimerFire
    \/ \E p \in FilePaths : ProbeLoad(p)
    \/ \E p \in FilePaths : ProbeError(p)

\* The full controller on nodes that lack some of their widgets.
SpecMissing == InitMissing /\ [][NextMissing]_vars

\* The life of one node of the target type: the type is enhanced, before or
\* after the host creates the node; the node is created, used and removed.
NextLifecycle ==
    \/ EnhanceNodeType
    \/ NodeCreated
    \/ NodeRemoved
    \/ \E v \in ImageValues : ImageCallback(v)
    \/ \E v \in FilepathValues : FilepathCallback(v)
    \/ TimerFire
    \/ \E p \in FilePaths : ProbeLoad(p)
    \/ \E p \in FilePaths : ProbeError(p)
    \/ ImgError

\* a target node type whose prototype has or lacks hooks of its own
InitLifecycle ==
    /\ InitController("full")
    /\ hasCanvas = TRUE
    /\ nodeWidgets = NodeWidgets("full")
    /\ registrar \in {[RegistrarStart EXCEPT !.types[NODE_NAME] = FreshType(h)] :
                          h \in [onNodeCreated : HostHooks, onRemoved : HostHooks]}

SpecLifecycle == InitLifecycle /\ [][NextLifecycle]_vars

\* A page of the host: the target type is enhanced when it is registered,
\* then nodes of the type are created and removed in any order.
NextPage ==
    \/ EnhanceNodeType
    \/ \E n \in NodeIds : CreateNode(n)
    \/ \E n \in NodeIds : RemoveNode(n)

SpecPage == InitLifecycle /\ [][NextPage]_vars

\* The registrar: the host registers the extension and offers node types
\* whose prototypes have or lack hooks of their own.
NextRegistrar ==
    \/ Register
    \/ \E name \in TypeNames, receiver \in Receivers :
          BeforeRegisterNodeDef(name, receiver)

InitRegistrar ==
    /\ InitController("full")
    /\ hasCanvas = TRUE
    /\ nodeWidgets = NodeWidgets("full")
    /\ registrar \in [extensions : {{}},
                      types : [TypeNames ->
                                 {FreshType(h) : h \in [onNodeCreated : HostHooks,
                                                        onRemoved : HostHooks]}]]

SpecRegistrar == InitRegistrar /\ [][NextRegistrar]_vars

(***************************************************************************)
(* Properties.                                                             *)
(***************************************************************************)
\* the widgets that hold a non-empty value (widget.value !== '')
NonEmpty == {w \in Widgets : value[w] # EmptyStr}

\* a clearing pass has just returned: the last handler ran clearOtherInputs
AfterPass == last.pass # "none"

\* the widget records of w in a callback log
CallsOf(log, w) == {i \in 1..Len(log) : log[i].widget = w}

\* C1: full controller, starting from all sources empty: after each clearing
\* pass at most one of upload, filepath, base64 and pasted is non-empty.
C1_AtMostOneOfFour ==
    (variant = "full" /\ AfterPass) => Cardinality(NonEmpty) <= 1

\* C2: reduced controller, starting from all sources empty: after each
\* clearing pass at most one of upload, filepath and base64 is non-empty, and
\* it is the source activated last.
C2_ReducedLastWriterWins ==
    (variant = "reduced" /\ AfterPass) =>
        /\ lastActivated = last.pass
        /\ NonEmpty \cap {"image", "filepath", "base64"} = {lastActivated}

\* C2 witness: a reduced-controller pass for filepath that emptied another
\* source.
C2_Witness ==
    /\ variant = "reduced"
    /\ last.pass = "filepath"
    /\ value["filepath"] # EmptyStr
    /\ calls # <<>>

\* The source the backend decodes: the highest-ranked non-empty value in the
\* order pasted_base64 > filepath > base64.
BackendChoice ==
    IF value["pasted"] # EmptyStr THEN "pasted"
    ELSE IF value["filepath"] # EmptyStr THEN "filepath"
    ELSE IF value["base64"] # EmptyStr THEN "base64"
    ELSE "none"

\* C3: full controller: after every activation, the source the backend would
\* decode is the one activated most recently among pasted, filepath and
\* base64.
C3_MirrorsBackend ==
    (variant = "full" /\ AfterPass /\ BackendChoice # "none") =>
        BackendChoice = lastDecodable

\* the clearing table of the full policy, by widget
RuleTable(w) ==
    CASE w = "pasted"   -> {"image", "filepath", "base64"}
      [] w = "filepath" -> {"image", "base64"}
      [] w = "base64"   -> {"image", "filepath"}
      [] w = "image"    -> {"filepath", "base64"}

\* C4: full controller, as a step property: an activation of s leaves s set,
\* every source in rule[s] empty and every other source unchanged (so
\* activating pasted leaves pasted set and all others empty); and no step
\* empties pasted.
C4_ClearingTable ==
    [][ /\ (variant = "full" /\ last'.pass # "none") =>
              LET s == WidgetOf(last'.pass)
              IN  /\ value'[s] # EmptyStr
                  /\ \A w \in RuleTable(s) : value'[w] = EmptyStr
                  /\ \A w \in Widgets \ (RuleTable(s) \cup {s}) : value'[w] = value[w]
        /\ (value["pasted"] # EmptyStr => value'["pasted"] # EmptyStr) ]_vars

\* C4 witness: pasted was activated while filepath and base64 were both set;
\* both were cleared and only pasted is set.
C4_Witness ==
    /\ variant = "full"
    /\ last.pass = "paste"
    /\ CallsOf(calls, "filepath") # {}
    /\ CallsOf(calls, "base64") # {}
    /\ NonEmpty = {"pasted"}

\* exactly one callback of w, with the empty string, after w was emptied
FiredOnceEmpty(log, w) ==
    /\ Cardinality(CallsOf(log, w)) = 1
    /\ \A i \in CallsOf(log, w) : log[i].arg = EmptyStr /\ log[i].value = EmptyStr

\* C5 as stated: during a clearing pass every source that goes from non-empty
\* to empty has its callback invoked exactly once with '' (after its value was
\* emptied), and no other source gets a callback.
C5_EveryClearedSourceNotified ==
    [][ last'.pass # "none" =>
          \A w \in Widgets \ {WidgetOf(last'.pass)} :
              IF value[w] # EmptyStr /\ value'[w] = EmptyStr
              THEN FiredOnceEmpty(calls', w)
              ELSE CallsOf(calls', w) = {} ]_vars

\* C5 amended: during a clearing pass every source that goes from non-empty
\* to empty and has a change callback has it invoked exactly once with ''
\* (after its value was emptied); a source that was already empty, or that
\* has no callback, gets none.
C5_ClearedSourceWithCallbackNotified ==
    [][ last'.pass # "none" =>
          \A w \in Widgets \ {WidgetOf(last'.pass)} :
              IF value[w] # EmptyStr /\ value'[w] = EmptyStr /\ HasCallback(w)
              THEN FiredOnceEmpty(calls', w)
              ELSE CallsOf(calls', w) = {} ]_vars

\* C5 witness: with filepath active, upload was activated: filepath is empty
\* and its callback fired with ''.
C5_Witness ==
    /\ last.pass = "image"
    /\ value["filepath"] = EmptyStr
    /\ FiredOnceEmpty(calls, "filepath")

\* C6: after a base64 value that fails validation, the preview is hidden and
\* stays hidden until another input event, the deferred re-check included.
C6_RejectedStaysHidden ==
    rejected => preview.display = "none"

\* what a base64 activation with v must leave, whatever validation says
Base64PassValues(v) ==
    [w \in Widgets |->
        IF w = "base64" THEN v
        ELSE IF w \in {"image", "filepath"} THEN EmptyStr
        ELSE value[w]]

\* C7: activating base64 with any value v, accepted or rejected, leaves base64
\* equal to v, clears upload and filepath, fires the callbacks of those that
\* were set, and schedules the re-check.
C7_ValidationNeverAffectsClearing ==
    [][ (last'.op = "input" /\ Activates(last'.arg)) =>
            /\ last'.pass = "base64"
            /\ value' = Base64PassValues(last'.arg)
            /\ \A w \in {"image", "filepath"} :
                  IF value[w] # EmptyStr
                  THEN FiredOnceEmpty(calls', w)
                  ELSE CallsOf(calls', w) = {}
            /\ CallsOf(calls', "base64") = {}
            /\ timers' = Append(timers, "base64") ]_vars

\* C7 witness: a rejected base64 value was typed while filepath was set: the
\* value stayed and filepath was cleared with its callback.
C7_Witness ==
    /\ last.op = "input"
    /\ last.ret = "false"
    /\ value["base64"] = RawInvalid
    /\ value["filepath"] = EmptyStr
    /\ FiredOnceEmpty(calls, "filepath")

\* the values the validation sub-contract accepts
Acceptable(v) ==
    \/ /\ StartsWith(v, DataImagePrefix)
       /\ \E i \in 1..Len(v) :
             /\ v[i] = ","
             /\ \A j \in 1..(i - 1) : v[j] # ","
             /\ i < Len(v)
             /\ v[i + 1] # ","
    \/ /\ ~StartsWith(v, DataImagePrefix)
       /\ AtobOk(Substring0(v, ProbeLen))

\* C8: validateBase64Input returns true and shows a preview exactly for the
\* acceptable values, and returns false and hides the preview for every
\* other value.
C8_ValidateAcceptsOrRejects ==
    (last.op = "input" /\ last.pass = "base64") =>
        IF Acceptable(value["base64"])
        THEN last.ret = "true" /\ preview.display = "block"
        ELSE last.ret = "false" /\ preview.display = "none"

\* C9: a deferred re-check that fires after cleanup() changes neither the
\* content nor the visibility of the preview element.
C9_StaleRecheckIsNoOp ==
    [][ (removed /\ last'.op = "timer") => preview' = preview ]_vars

\* C10: an image-load probe that completes after cleanup() changes neither
\* the preview element nor any widget value.
C10_StaleProbeIsNoOp ==
    [][ (removed /\ last'.op \in {"probe-load", "probe-error"}) =>
          (preview' = preview /\ value' = value) ]_vars

\* C20: every offered node type named 'ImageLoader' has both lifecycle hooks
\* wrapped by the registrar, and every offered type with another name keeps
\* the hooks it had.
C20_RegistrarWrapsTargetOnly ==
    \A n \in TypeNames :
        registrar.types[n].offered # "no" =>
            IF n = NODE_NAME
            THEN /\ registrar.types[n].offered = "resolved"
                 /\ registrar.types[n].hooks =
                        [onNodeCreated |-> "wrapper", onRemoved |-> "wrapper"]
            ELSE registrar.types[n].hooks = registrar.types[n].original

\* what the controller owns: its fields, its widgets' values, its DOM nodes
\* and listeners, its pending work and its node's appearance
ControllerState ==
    << initialized, removed, widgets, value, previewElement, previewAttached,
       nodePreviewRef, preview, eventListeners, domListeners, timers,
       pasteTimers, probes, readers, indicators, isDragging, nodeColors,
       originalColors >>

\* C11 as stated: a second cleanup() leaves the state of the first, removes
\* no listener and no DOM node, does nothing else (no redraw either) and
\* raises no error.
C11_SecondCleanupDoesNothing ==
    [][ (removed /\ last'.op = "cleanup") =>
            /\ ControllerState' = ControllerState
            /\ last'.unlistened = {}
            /\ last'.detached = {}
            /\ ~last'.threw
            /\ last'.draws = 0 ]_vars

\* C11 amended: a second cleanup() leaves the state of the first, removes no
\* listener and no DOM node and raises no error; its one effect is the redraw
\* setDragState(false) asks of the canvas when the node has one.
C11_SecondCleanupKeepsState ==
    [][ (removed /\ last'.op = "cleanup") =>
            /\ ControllerState' = ControllerState
            /\ last'.unlistened = {}
            /\ last'.detached = {}
            /\ ~last'.threw
            /\ last'.draws = (IF hasCanvas THEN 1 ELSE 0) ]_vars

\* C11 witness: cleanup() has run for the second time, on a node with a
\* canvas that holds a pasted image.
C11_Witness ==
    /\ removed
    /\ last.op = "cleanup"
    /\ last.unlistened = {}
    /\ last.detached = {}
    /\ hasCanvas
    /\ value["pasted"] # EmptyStr

\* C12: right after cleanup() no listener the controller registered is still
\* registered, and neither the preview element nor a paste indicator is
\* attached to the document.
C12_NothingRemainsAfterCleanup ==
    last.op = "cleanup" =>
        /\ domListeners = {}
        /\ ~previewAttached
        /\ indicators = {}

\* C14: after a drag-leave, or a drop of an image payload, the node has the
\* appearance the host gave it.
C14_DragHighlightRestored ==
    (last.op = "dragleave" \/ (last.op = "drop" /\ last.ret = "consumed")) =>
        nodeColors = "host"

\* C15: a document paste that reaches the controller of a node that is not
\* selected in a graph canvas leaves that node unchanged: no read starts, no
\* indicator appears, no value or preview changes.  (Each node's controller
\* has its own listener on the document; the model follows one node.)
C15_PasteFilteredBySelection ==
    [][ (last'.op = "paste" /\ ~(hasCanvas /\ selected)) =>
            /\ ControllerState' = ControllerState
            /\ last'.ret = "none"
            /\ calls' = <<>> ]_vars

\* C15 witness: an image was pasted while the node, which holds a pasted
\* image, was not selected.
C15_Witness ==
    /\ last.op = "paste"
    /\ last.arg = <<"photo", "shot">>
    /\ ~selected
    /\ hasCanvas
    /\ value["pasted"] # EmptyStr

\* C13: whenever the wrapped upload or filepath callback of a widget that had
\* a callback of its own has run with a value, that original callback was
\* called exactly once, with that value and the node as receiver, after the
\* calls the clearing pass made, and the wrapper returned what it returned;
\* each wrapped callback the clearing pass invoked forwarded once as well.
C13_WrapperForwardsToOriginal ==
    (last.op = "callback" /\ last.widget \in hostCallbacks) =>
        /\ origCalls # <<>>
        /\ CallsOf(origCalls, last.widget) = {Len(origCalls)}
        /\ origCalls[Len(origCalls)] =
              [widget |-> last.widget, arg |-> last.arg, receiver |-> "node"]
        /\ last.ret = HostReturn(last.widget)
        /\ \A w \in {"image", "filepath"} \ {last.widget} :
              /\ Cardinality(CallsOf(origCalls, w)) = Cardinality(CallsOf(calls, w))
              /\ \A i \in CallsOf(origCalls, w) :
                    origCalls[i].arg = EmptyStr /\ origCalls[i].receiver = "node"

\* C13 witness: the filepath wrapper ran with a whitespace-only value on a
\* widget that had a callback of its own.
C13_Witness ==
    /\ last.op = "callback"
    /\ last.widget = "filepath"
    /\ last.arg = <<" ">>
    /\ "filepath" \in hostCallbacks
    /\ value["base64"] # EmptyStr

\* C16: when a FileReader reports an error, no widget value changes, no
\* clearing pass runs, no callback fires, no re-check is scheduled and the
\* preview is as it was.
C16_ReadFailureMutatesNothing ==
    [][ last'.op = "reader-error" =>
            /\ value' = value
            /\ preview' = preview
            /\ last'.pass = "none"
            /\ calls' = <<>>
            /\ origCalls' = <<>>
            /\ timers' = timers
            /\ probes' = probes
            /\ ~last'.threw ]_vars

\* C16 witness: a read failed on a node that shows an earlier pasted image.
C16_Witness ==
    /\ last.op = "reader-error"
    /\ value["pasted"] # EmptyStr
    /\ preview.display = "block"

\* C18: after a callback or an input event, if the source activated last no
\* longer holds a value (it is empty or only white space), the preview is
\* hidden.
C18_EmptyActiveSourceHidesPreview ==
    (/\ last.op \in {"callback", "input"}
     /\ lastActivated # "none"
     /\ ~Activates(value[lastActivated])) => preview.display = "none"

\* the URL the backend serves a path under, for the paths of the model
ExpectedViewUrl(path) ==
    ViewPrefix
    \o (IF path = <<"d","/","x",".","p","n","g">>
        THEN <<"d","%","2","F","x",".","p","n","g">>
        ELSE path)
    \o ViewSuffix

\* name is the last segment of path: it holds no separator and path ends
\* with it, right after a separator or as the whole path
IsFileNameOf(name, path) ==
    /\ \A i \in 1..Len(name) : name[i] \notin {"/", "\\"}
    /\ Len(name) <= Len(path)
    /\ SubSeq(path, Len(path) - Len(name) + 1, Len(path)) = name
    /\ Len(name) < Len(path) => path[Len(path) - Len(name)] \in {"/", "\\"}

\* C19: when the probe of a file path completes on a live controller, the
\* preview becomes visible, with the image served for that path if the probe
\* succeeded and with a placeholder naming only the file if it failed; no
\* widget value changes and nothing is raised.
C19_ProbeEndsDisplayable ==
    [][ (~removed /\ last'.op \in {"probe-load", "probe-error"}) =>
            /\ preview'.display = "block"
            /\ last'.op = "probe-load" =>
                  preview'.html = [kind |-> "img",
                                   arg |-> ExpectedViewUrl(last'.arg)]
            /\ last'.op = "probe-error" =>
                  /\ preview'.html.kind = "placeholder"
                  /\ IsFileNameOf(preview'.html.arg, last'.arg)
            /\ value' = value
            /\ ~last'.threw ]_vars

\* C19 witness: the probe of the filepath 'd/x.png' failed while filepath was
\* the active source, and the placeholder is on screen.
C19_Witness ==
    /\ ~removed
    /\ last.op = "probe-error"
    /\ last.arg = <<"d","/","x",".","p","n","g">>
    /\ lastActivated = "filepath"
    /\ value["filepath"] = last.arg
    /\ preview.html.kind = "placeholder"

\* C17: whichever widgets the node lacks, no handler ends in an exception, the
\* value of a widget the controller did not find never changes, and a
\* completed read of a pasted or dropped image on a node without the pasted
\* widget changes nothing.
C17_MissingWidgetsDegrade ==
    [][ /\ ~last'.threw
        /\ \A w \in Widgets \ widgets' : value'[w] = value[w]
        /\ (last'.op = "reader-load" /\ "pasted" \notin widgets) =>
              /\ value' = value
              /\ preview' = preview
              /\ calls' = <<>>
              /\ last'.pass = "none" ]_vars

\* C17 witness: the read of a dropped image completed on a node that has no
\* pasted widget and whose filepath is set.
C17_Witness ==
    /\ last.op = "reader-load"
    /\ "pasted" \notin widgets
    /\ "base64" \notin widgets
    /\ value["filepath"] # EmptyStr
    /\ ~last.threw

\* C21: every document paste that hands an image to the reader puts one more
\* indicator on screen; the timer of an indicator removes that indicator and
\* no other, without error; and every indicator on screen is eventually
\* removed, also while other indicators are on screen and after cleanup().
C21_IndicatorAutoDismisses ==
    /\ [][ (last'.op = "paste" /\ last'.ret = "consumed") =>
              /\ Cardinality(indicators') = Cardinality(indicators) + 1
              /\ indicators \subseteq indicators' ]_vars
    /\ [][ last'.op = "indicator-timeout" =>
              /\ Cardinality(indicators') = Cardinality(indicators) - 1
              /\ indicators' \subseteq indicators
              /\ ~last'.threw ]_vars
    /\ \A i \in IndicatorSlots : (i \in indicators) ~> (i \notin indicators)

\* C21 witness: two pastes overlapped, the node was removed, and the timer of
\* one indicator has fired while the other indicator is still on screen.
C21_Witness ==
    /\ removed
    /\ last.op = "indicator-timeout"
    /\ Cardinality(indicators) = 1
    /\ value["pasted"] # EmptyStr

\* C22: a drop of a file list that holds a file of a supported image type
\* starts exactly one read, of the first such file in list order, and changes
\* no widget by itself; a drop of a list with no such file starts no read,
\* changes no widget and is left to the host's handler.
C22_DropUsesFirstImage ==
    [][ last'.op = "drop" =>
          LET files == last'.arg
              images == {i \in 1..Len(files) :
                            isValidImageType(FileType(files[i]))}
          IN  /\ value' = value
              /\ IF images = {}
                 THEN readers' = readers /\ last'.ret = "forwarded"
                 ELSE \E i \in images :
                         /\ \A j \in images : i <= j
                         /\ readers' = readers (+) SetToBag({files[i]})
                         /\ last'.ret = "consumed" ]_vars

\* C22 witness: two images were dropped together and the read of the first
\* one, and of no other, is pending.
C22_Witness ==
    /\ last.op = "drop"
    /\ last.arg = <<"photo", "shot">>
    /\ BagToSet(readers) = {"photo"}
    /\ BagCardinality(readers) = 1

\* C23: the handler of an activation of upload, filepath or base64 only hides
\* the preview: it shows nothing and starts no image probe, and leaves the one
\* preview update of the activation to the re-check it schedules.
C23_PreviewOnlyByDeferredRecheck ==
    [][ last'.pass \in {"image", "filepath", "base64"} =>
            /\ preview'.display = "none"
            /\ preview'.html = preview.html
            /\ probes' = probes
            /\ timers' = Append(timers, last'.pass) ]_vars

\* C24: on a node type whose hooks enhanceNodeType has wrapped, the creation
\* of a node runs the host's original onNodeCreated (if there is one) first
\* and then constructs and initializes exactly one controller; the removal of
\* a node that has a controller runs cleanup() exactly once, before the
\* host's original onRemoved (if there is one).
C24_LifecycleOrder ==
    [][ LET t == registrar.types[NODE_NAME]
            host(h) == IF t.original[h] = "original" THEN <<"original">>
                       ELSE <<>>
        IN  /\ (/\ ~lifecycle.created
                /\ lifecycle'.created
                /\ t.hooks.onNodeCreated = "wrapper") =>
                   /\ lifecycle'.steps =
                         host("onNodeCreated") \o <<"construct", "initialize">>
                   /\ lifecycle'.controllers = 1
                   /\ ~initialized
                   /\ initialized'
            /\ (/\ ~lifecycle.gone
                /\ lifecycle'.gone
                /\ t.hooks.onRemoved = "wrapper"
                /\ lifecycle.controllers > 0) =>
                   /\ lifecycle'.steps = <<"cleanup">> \o host("onRemoved")
                   /\ ~removed
                   /\ removed'
                   /\ last'.op = "cleanup" ]_vars

\* C24 witness: a node of an enhanced type whose prototype had both hooks was
\* created, given a file path, and removed; its one controller was cleaned up
\* before the host's onRemoved ran.
C24_Witness ==
    /\ lifecycle.gone
    /\ lifecycle.controllers = 1
    /\ lifecycle.steps = <<"cleanup", "original">>
    /\ registrar.types[NODE_NAME].original.onNodeCreated = "original"
    /\ removed
    /\ value["filepath"] # EmptyStr

\* the image that stands for value v of source w: the served file for upload
\* and filepath, the data URL for base64 and pasted
ImageOf(w, v) ==
    IF w \in {"image", "filepath"} THEN ExpectedViewUrl(v)
    ELSE IF StartsWith(v, DataPrefix) THEN v
    ELSE PngDataUrlPrefix \o v

\* C25: whenever the preview shows an image while the source activated last
\* holds a value, the image is the one of that value; a probe of an earlier
\* upload or filepath value that completes later does not replace it.
C25_PreviewNeverStale ==
    (/\ preview.display = "block"
     /\ preview.html.kind = "img"
     /\ lastActivated # "none"
     /\ Activates(value[lastActivated])) =>
        preview.html.arg = ImageOf(lastActivated, value[lastActivated])

\* C26: when the re-check of an activation of A fires after a different
\* source was activated, it leaves the preview as it is and starts no probe.
C26_SupersededRecheckDoesNothing ==
    [][ (/\ last'.op = "timer"
         /\ timers # <<>>
         /\ lastActivated # WidgetOf(Head(timers))) =>
            /\ preview' = preview
            /\ probes' = probes ]_vars

\* C27: a clearing pass starts no clearing pass of its own: the callbacks it
\* fires on cleared widgets are given '', which no wrapper acts on, so the
\* handler runs clearOtherInputs once and schedules at most the one re-check
\* of its own activation.
C27_ClearingPassNeverNests ==
    [][ last'.pass # "none" =>
            /\ last'.nested = 0
            /\ \A i \in 1..Len(calls') : ~Activates(calls'[i].arg)
            /\ timers' = timers \o (IF last'.pass = "paste" THEN <<>>
                                     ELSE <<last'.pass>>)
            /\ ~last'.threw ]_vars

\* C27 witness: a base64 activation cleared upload and filepath, both of
\* which have wrapped callbacks, and both callbacks fired.
C27_Witness ==
    /\ last.pass = "base64"
    /\ CallsOf(calls, "image") # {}
    /\ CallsOf(calls, "filepath") # {}
    /\ {"image", "filepath"} \subseteq Wrapped
    /\ last.nested = 0

\* C28: a value that is empty after trimming, given to the upload or
\* filepath callback or typed into the base64 text area, runs no clearing
\* pass: no other source's value changes, no callback is fired on a widget,
\* no re-check is scheduled, no probe starts and the preview stays as it is.
C28_BlankNeverActivates ==
    [][ (last'.op \in {"callback", "input"} /\ Trim(last'.arg) = EmptyStr) =>
            LET own == IF last'.op = "input" THEN "base64" ELSE last'.widget
            IN  /\ last'.pass = "none"
                /\ value' = [value EXCEPT ![own] = last'.arg]
                /\ calls' = <<>>
                /\ timers' = timers
                /\ probes' = probes
                /\ preview' = preview
                /\ lastActivated' = lastActivated ]_vars

\* C28 witness: a white-space filepath was entered while base64 was the
\* active source; base64 kept its value.
C28_Witness ==
    /\ last.op = "callback"
    /\ last.widget = "filepath"
    /\ last.arg = <<" ">>
    /\ value["filepath"] = <<" ">>
    /\ value["base64"] # EmptyStr
    /\ lastActivated = "base64"

\* C29: a FileReader that completes after cleanup() sets no widget value,
\* runs no clearing pass, fires no callback and leaves the preview element
\* as it is.
C29_LateReadChangesNothing ==
    [][ (removed /\ last'.op = "reader-load") =>
            /\ value' = value
            /\ last'.pass = "none"
            /\ calls' = <<>>
            /\ origCalls' = <<>>
            /\ preview' = preview ]_vars

\* C30: an indicator is on screen only for a paste that took effect: once no
\* read is pending, an indicator on screen means the pasted widget holds an
\* image (no step empties the pasted widget).
C30_IndicatorOnlyForEffectivePaste ==
    (indicators # {} /\ readers = EmptyBag) => value["pasted"] # EmptyStr

\* C32: a paste, drag-over or drop that carries no file of a supported image
\* type changes nothing the controller owns (no value, no read, no indicator,
\* no highlight, no redraw) and is not consumed; a drag-over or drop is then
\* handed to the node's original handler.  One that carries such a file is
\* consumed (a paste: on a node selected in a canvas) and is not handed on.
C32_NonImageEventsPassThrough ==
    [][ last'.op \in {"paste", "dragover", "drop"} =>
          LET files == last'.arg
              image == \E i \in 1..Len(files) :
                          ToLowerCase(FileType(files[i])) \in SUPPORTED_IMAGE_TYPES
          IN  IF ~image
              THEN /\ ControllerState' = ControllerState
                   /\ last'.draws = 0
                   /\ calls' = <<>>
                   /\ last'.ret = (IF last'.op = "paste" THEN "none"
                                   ELSE "forwarded")
              ELSE /\ last'.op \in {"dragover", "drop"} =>
                         last'.ret = "consumed"
                   /\ (last'.op = "paste" /\ hasCanvas /\ selected) =>
                         last'.ret = "consumed" ]_vars

\* C32 witness: a text file was dropped on a highlighted node that holds a
\* pasted image; the drop went to the original handler.
C32_Witness ==
    /\ last.op = "drop"
    /\ last.arg = <<"notes">>
    /\ last.ret = "forwarded"
    /\ isDragging
    /\ value["pasted"] # EmptyStr

\* C31: on a page whose target type was enhanced before its nodes were
\* created, after any creations and removals the 'paste' listeners the
\* extension has on the document, and the preview elements it has in
\* document.body, are those of the nodes created and not yet removed: one
\* each per such node and none of a removed node.
C31_NoListenerLeak ==
    LET live == {n \in NodeIds : page.nodes[n].phase = "live"}
    IN  /\ page.pasteListeners = live
        /\ page.body = live
        /\ Cardinality(page.pasteListeners) = Cardinality(live)
        /\ Cardinality(page.body) = Cardinality(live)

\* C31 witness: three nodes were created and two of them removed; the one
\* that is left has the only listener and the only preview element.
C31_Witness ==
    /\ Cardinality({n \in NodeIds : page.nodes[n].phase = "removed"}) = 2
    /\ Cardinality({n \in NodeIds : page.nodes[n].phase = "live"}) = 1
    /\ Cardinality(page.pasteListeners) = 1
    /\ Cardinality(page.body) = 1

====
